---- MODULE Spec2Model ----
(***************************************************************************)
(* Model of src/app_dividendos.py: one run of the dividend-portfolio       *)
(* dashboard script (upload loader, per-ticker metrics loop, report        *)
(* sections, narrative prompt, performance vs benchmark, dividend cash     *)
(* flow).                                                                  *)
(*                                                                         *)
(* Numbers.  Python floats are modelled as exact rationals <<n, d>> in     *)
(* lowest terms with d > 0, so that equality of rationals is equality of   *)
(* tuples.  A weight cell of the uploaded table holds an integer number of *)
(* hundredths (50 is 0.50).  Dates are day numbers; the calendar year of a *)
(* day is day \div 365.                                                    *)
(*                                                                         *)
(* Environment.  What the outside world answers during a run (the uploaded *)
(* file, the market-data provider's data per ticker, which external calls  *)
(* raise, whether the user presses the narrative button) is drawn in Init  *)
(* and read by the actions.                                                *)
(***************************************************************************)
EXTENDS Integers, Sequences, FiniteSets, TLC

VARIABLES
    uploaded_file,         \* the file given to st.file_uploader
    yf,                    \* provider data per ticker (yf.Ticker(t))
    falhas,                \* the external calls that raise in this run
    botao_ia,              \* st.button("Atualizar Analise ...") pressed
    pc,                    \* position of the script
    CARTEIRA_ACOES,        \* dict ticker -> {"peso": w}, in insertion order
    total_pesos,           \* the loader's running sum of accepted weights
    mensagens,             \* st.warning / st.error / st.info shown so far
    excecao,               \* the uncaught exception that ended the run
    cache,                 \* st.cache_data of buscar_dados_acao
    chamadas,              \* provider calls issued since the cache last expired
    i_loop,                \* index of the next ticker of the current loop
    dados_carteira,        \* rows of the metrics table
    precos_fechamento,     \* DataFrame of closing prices
    dividend_yields_dict,  \* ticker -> trailing yield
    relatorio,             \* what the report sections computed
    prompt,                \* what gerar_prompt_ia computed
    ia_report_text,        \* st.session_state.ia_report_text
    desempenho,            \* what the performance section computed
    dividendos_combinados, \* weighted dividend cash-flow Series
    sessao,                \* the reruns still to come in the user session
    execucao,              \* number of the current run of the script
    geracoes               \* texts the narrative service returned in the session

vars == <<uploaded_file, yf, falhas, botao_ia, pc, CARTEIRA_ACOES, total_pesos,
          mensagens, excecao, cache, chamadas, i_loop, dados_carteira,
          precos_fechamento, dividend_yields_dict, relatorio, prompt,
          ia_report_text, desempenho, dividendos_combinados, sessao, execucao,
          geracoes>>

mundo == <<uploaded_file, yf, falhas, botao_ia, sessao, execucao>>

----------------------------------------------------------------------------
(* Bounds of the model *)

MaxLinhas == 2
MaxDatas == 2
MaxDividendo == 2
MaxReexecucoes == 2

(* Program constants *)

DIAS_HISTORICO == 730
TICKER_IBOV == "^BVSP"

----------------------------------------------------------------------------
(* Exact rationals *)

RECURSIVE GCD(_, _)
GCD(a, b) == IF b = 0 THEN a ELSE GCD(b, a % b)

Abs(x) == IF x < 0 THEN -x ELSE x

Rat(n, d) ==
    LET s == IF d < 0 THEN -1 ELSE 1
        g == GCD(Abs(n), Abs(d))
    IN  <<(s * n) \div g, (s * d) \div g>>

RZero == <<0, 1>>
ROne == <<1, 1>>
RInt(k) == <<k, 1>>
RAdd(a, b) == Rat(a[1] * b[2] + b[1] * a[2], a[2] * b[2])
RSub(a, b) == Rat(a[1] * b[2] - b[1] * a[2], a[2] * b[2])
RMul(a, b) == Rat(a[1] * b[1], a[2] * b[2])
RDiv(a, b) == Rat(a[1] * b[2], a[2] * b[1])
RLt(a, b) == a[1] * b[2] < b[1] * a[2]
RLe(a, b) == a[1] * b[2] <= b[1] * a[2]
RAbs(a) == <<Abs(a[1]), a[2]>>

(* round(x) to the nearest integer, ties to even: what "{x:.0f}" prints *)
RoundHalfEven(a) ==
    LET q == a[1] \div a[2]
        r == a[1] - q * a[2]
    IN  IF 2 * r < a[2] THEN q
        ELSE IF 2 * r > a[2] THEN q + 1
        ELSE IF q % 2 = 0 THEN q ELSE q + 1

RECURSIVE SumSeq(_)
SumSeq(s) == IF s = <<>> THEN RZero ELSE RAdd(Head(s), SumSeq(Tail(s)))

RECURSIVE SumSet(_, _)
SumSet(S, f) ==
    IF S = {} THEN RZero
    ELSE LET x == CHOOSE y \in S : TRUE
         IN  RAdd(f[x], SumSet(S \ {x}, f))

SeqsUpTo(S, n) == UNION {[1..k -> S] : k \in 0..n}

----------------------------------------------------------------------------
(* Python values that may be None *)

PyNone == [t |-> "None"]
PyNum(v) == [t |-> "num", v |-> v]

(* Messages shown to the user *)
Msg(nivel, id, ticker) == [nivel |-> nivel, id |-> id, ticker |-> ticker]

----------------------------------------------------------------------------
(* Python dict with insertion order: a sequence of <<key, value>> *)

DictKeys(d) == {d[i][1] : i \in 1..Len(d)}
DictGet(d, k) == d[CHOOSE i \in 1..Len(d) : d[i][1] = k][2]
DictSet(d, k, v) ==
    IF k \in DictKeys(d)
    THEN [i \in 1..Len(d) |-> IF d[i][1] = k THEN <<k, v>> ELSE d[i]]
    ELSE Append(d, <<k, v>>)

----------------------------------------------------------------------------
(* Upload loader *)

Tickers == {"AAA", "BBB", "CCC"}
TickersBrutos == Tickers \cup {" aaa"}

(* str(row['Ticker']).strip().upper() *)
NormalizarTicker(s) == IF s = " aaa" THEN "AAA" ELSE s

(* float(row['Peso']): a number, nan, or the exception raised *)
FloatPeso(cel) ==
    CASE cel.tipo = "num" -> [r |-> "ok", nan |-> FALSE, v |-> Rat(cel.valor, 100)]
      [] cel.tipo = "nan" -> [r |-> "ok", nan |-> TRUE, v |-> RZero]
      [] cel.tipo = "texto" -> [r |-> "ValueError", nan |-> FALSE, v |-> RZero]
      [] cel.tipo = "data" -> [r |-> "TypeError", nan |-> FALSE, v |-> RZero]

(* peso > 0 *)
PesoPositivo(f) == ~f.nan /\ RLt(RZero, f.v)

(* one iteration of the row loop; st is [cart, total, msgs, exc] *)
ProcessarLinha(st, row) ==
    LET ticker == NormalizarTicker(row.Ticker)
        f == FloatPeso(row.Peso)
    IN  IF st.exc # "" THEN st
        ELSE IF f.r = "ValueError"
        THEN [st EXCEPT !.msgs = Append(@, Msg("warning", "peso_invalido", ticker))]
        ELSE IF f.r # "ok"
        THEN [st EXCEPT !.exc = f.r]
        ELSE IF PesoPositivo(f)
        THEN [st EXCEPT !.cart = DictSet(@, ticker, [peso |-> f.v]),
                        !.total = RAdd(@, f.v)]
        ELSE [st EXCEPT !.msgs = Append(@, Msg("warning", "peso_nao_positivo", ticker))]

RECURSIVE ProcessarLinhas(_, _)
ProcessarLinhas(st, rows) ==
    IF rows = <<>> THEN st
    ELSE ProcessarLinhas(ProcessarLinha(st, Head(rows)), Tail(rows))

(* abs(total_pesos - 1.0) > 0.01 *)
PrecisaNormalizar(total) ==
    RLt(RZero, total) /\ RLt(Rat(1, 100), RAbs(RSub(total, ROne)))

(* CARTEIRA_ACOES[ticker]["peso"] /= total_pesos, for every ticker *)
NormalizarPesos(cart, total) ==
    [i \in 1..Len(cart) |-> <<cart[i][1], [peso |-> RDiv(cart[i][2].peso, total)]>>]

(* lines 42-81: the portfolio, the sum and the messages after the upload *)
CarregarUpload(arq) ==
    LET vazio == [cart |-> <<>>, total |-> RZero, msgs |-> <<>>, exc |-> ""]
    IN  IF arq.tipo = "nenhum" THEN vazio
        ELSE IF arq.tipo = "ilegivel"
        THEN [vazio EXCEPT !.msgs = <<Msg("error", "erro_ler_arquivo", "")>>]
        ELSE IF ~arq.colunas
        THEN [vazio EXCEPT !.msgs = <<Msg("error", "colunas_invalidas", "")>>]
        ELSE LET st == ProcessarLinhas(vazio, arq.linhas)
             IN  IF st.exc # ""
                 THEN [cart |-> <<>>, total |-> st.total, exc |-> "",
                       msgs |-> Append(st.msgs, Msg("error", "erro_ler_arquivo", ""))]
                 ELSE IF PrecisaNormalizar(st.total)
                 THEN [st EXCEPT !.cart = NormalizarPesos(st.cart, st.total),
                                 !.msgs = Append(@, Msg("warning", "normalizando", ""))]
                 ELSE IF st.total = RZero /\ Len(st.cart) > 0
                 THEN [st EXCEPT !.cart = <<>>,
                                 !.msgs = Append(@, Msg("error", "nenhum_peso_valido", ""))]
                 ELSE st

----------------------------------------------------------------------------
(* Dates and Series *)

(* datetime.now(): day 200 of year 20 *)
Hoje == 20 * 365 + 200
AnoDe(d) == d \div 365

(* a pandas Series indexed by date: a function from its dates to values *)
SerieVazia == [d \in {} |-> 0]
Restringir(s, D) == [d \in (DOMAIN s) \cap D |-> s[d]]
Series(D, V) == UNION {[S -> V] : S \in SUBSET D}

RECURSIVE SomaInt(_, _)
SomaInt(S, s) ==
    IF S = {} THEN 0
    ELSE LET x == CHOOSE y \in S : TRUE
         IN  s[x] + SomaInt(S \ {x}, s)

Min(S) == CHOOSE x \in S : \A y \in S : x <= y
Max(S) == CHOOSE x \in S : \A y \in S : x >= y

----------------------------------------------------------------------------
(* buscar_dados_acao behind st.cache_data: the result of the call made at  *)
(* `fase` for `ticker`, without the bookkeeping                            *)

Sitio(ticker, fase) == <<ticker, fase>>

(* lines 90-97: what the provider returns for the ticker *)
buscar_dados_acao(ticker) ==
    [info |-> yf[ticker].info,
     hist |-> Restringir(yf[ticker].hist,
                         {d \in DOMAIN yf[ticker].hist :
                             d >= Hoje - DIAS_HISTORICO /\ d <= Hoje}),
     dividends |-> yf[ticker].dividends]

EmCache(ticker) == ticker \in DOMAIN cache
Falha(ticker, fase) == ~EmCache(ticker) /\ Sitio(ticker, fase) \in falhas
Dados(ticker) == IF EmCache(ticker) THEN cache[ticker] ELSE buscar_dados_acao(ticker)

(* the bookkeeping of one call: provider calls issued and cache contents *)
ChamadasApos(ticker) ==
    IF EmCache(ticker) THEN chamadas ELSE Append(chamadas, ticker)
CacheApos(ticker, fase) ==
    IF EmCache(ticker) \/ Falha(ticker, fase) THEN cache
    ELSE (ticker :> buscar_dados_acao(ticker)) @@ cache

----------------------------------------------------------------------------
(* calcular_crescimento_dividendos *)

NA == [t |-> "N/A"]

(* the CAGR of the two yearly totals over num_periodos years; the root is  *)
(* kept symbolic: the value is determined by (fim, inicio, periodos)       *)
Cagr(inicio, fim, periodos) ==
    [t |-> "cagr", razao |-> Rat(fim, inicio), periodos |-> periodos]

(* the first and last year taken from the whole series, not from the window *)
CrescimentoSemJanela(dividends_series, years) ==
    IF Cardinality(DOMAIN dividends_series) < 2 THEN NA
    ELSE LET inicio_periodo == Hoje - years * 365
             no_periodo == {d \in DOMAIN dividends_series : d >= inicio_periodo}
         IN  IF no_periodo = {} THEN NA
             ELSE LET primeiro_ano == AnoDe(Min(DOMAIN dividends_series))
                      ultimo_ano == AnoDe(Max(DOMAIN dividends_series))
                      total_inicio == SomaInt({d \in no_periodo : AnoDe(d) = primeiro_ano},
                                              dividends_series)
                      total_fim == SomaInt({d \in no_periodo : AnoDe(d) = ultimo_ano},
                                           dividends_series)
                  IN  IF total_inicio <= 0 \/ total_fim <= 0
                         \/ (ultimo_ano - primeiro_ano) < 1
                      THEN NA
                      ELSE Cagr(total_inicio, total_fim, ultimo_ano - primeiro_ano)

calcular_crescimento_dividendos(dividends_series, years) ==
    IF Cardinality(DOMAIN dividends_series) < 2 THEN NA
    ELSE LET inicio_periodo == Hoje - years * 365
             no_periodo == {d \in DOMAIN dividends_series : d >= inicio_periodo}
         IN  IF no_periodo = {} THEN NA
             ELSE LET primeiro_ano == AnoDe(Min(no_periodo))
                      ultimo_ano == AnoDe(Max(no_periodo))
                      total_inicio == SomaInt({d \in no_periodo : AnoDe(d) = primeiro_ano},
                                              dividends_series)
                      total_fim == SomaInt({d \in no_periodo : AnoDe(d) = ultimo_ano},
                                           dividends_series)
                  IN  IF total_inicio <= 0 \/ total_fim <= 0
                         \/ (ultimo_ano - primeiro_ano) < 1
                      THEN NA
                      ELSE Cagr(total_inicio, total_fim, ultimo_ano - primeiro_ano)

----------------------------------------------------------------------------
(* DataFrame of closing prices: an index (set of dates) and columns in     *)
(* insertion order; a column is a Series over the dates where it is not NaN *)

DfVazio == [index |-> {}, cols |-> <<>>]
DfEmpty(df) == df.index = {} \/ df.cols = <<>>

(* df[ticker] = serie: the first column of an index-less frame brings its  *)
(* index, a later one is aligned to the index already there                *)
DfSetColumn(df, ticker, serie) ==
    IF df.index = {}
    THEN [index |-> DOMAIN serie, cols |-> DictSet(df.cols, ticker, serie)]
    ELSE [index |-> df.index,
          cols |-> DictSet(df.cols, ticker, Restringir(serie, df.index))]

(* pd.concat([df, serie.rename(nome)], axis=1): outer join on the index *)
DfConcat(df, nome, serie) ==
    [index |-> df.index \cup DOMAIN serie, cols |-> Append(df.cols, <<nome, serie>>)]

(* df.dropna(): the rows with a value in every column *)
DfDropna(df) ==
    LET fica == {d \in df.index : \A i \in 1..Len(df.cols) : d \in DOMAIN df.cols[i][2]}
    IN  [index |-> fica,
         cols |-> [i \in 1..Len(df.cols) |->
                      <<df.cols[i][1], Restringir(df.cols[i][2], fica)>>]]

----------------------------------------------------------------------------
(* Per-ticker loop (lines 146-235) *)

Truthy(x) == x.t = "num" /\ x.v # 0

(* info.get('currentPrice') that is a non-empty string: truthy, and        *)
(* current_price > 0 raises TypeError (line 168)                           *)
PyTexto == [t |-> "str"]
ErroProcessamento(d) == d.info.currentPrice.t = "str"

(* dividends[(index >= um_ano_atras) & (index <= hoje)].sum() *)
Dividends12m(dividends) ==
    SomaInt({d \in DOMAIN dividends : d >= Hoje - 365 /\ d <= Hoje}, dividends)

(* lines 168-173: the value stored in dividend_yields_dict *)
CalcularDy(current_price, dividends_12m) ==
    IF Truthy(current_price) /\ current_price.v > 0
    THEN RMul(Rat(dividends_12m, current_price.v), RInt(100))
    ELSE RZero

(* f"{x:.2f}": x rounded to hundredths *)
Fmt2(x) == [t |-> "fmt2", centesimos |-> RoundHalfEven(RMul(x, RInt(100)))]

(* f"{atributos['peso']*100:.0f}%" *)
FmtPeso(peso) == RoundHalfEven(RMul(peso, RInt(100)))

LinhaOk(ticker, atributos, d) ==
    LET current_price == d.info.currentPrice
        dy == CalcularDy(current_price, Dividends12m(d.dividends))
    IN  [Ticker |-> ticker,
         Peso |-> FmtPeso(atributos.peso),
         Setor |-> d.info.sector,
         DividendYield |-> IF Truthy(current_price) THEN Fmt2(dy) ELSE NA,
         PrecoAtual |-> IF Truthy(current_price) THEN Fmt2(RInt(current_price.v)) ELSE NA,
         CrescDy3a |-> calcular_crescimento_dividendos(d.dividends, 3),
         CrescDy5a |-> calcular_crescimento_dividendos(d.dividends, 5)]

NAErro == [t |-> "N/A (Erro)"]

(* an except block that lacks the markers of the two growth columns *)
LinhaErroSemCrescimento(ticker, atributos) ==
    [Ticker |-> ticker,
     Peso |-> FmtPeso(atributos.peso),
     Setor |-> "N/A (Erro ao carregar)",
     DividendYield |-> NAErro,
     PrecoAtual |-> NAErro,
     CrescDy3a |-> NA,
     CrescDy5a |-> NA]

LinhaErro(ticker, atributos) ==
    [Ticker |-> ticker,
     Peso |-> FmtPeso(atributos.peso),
     Setor |-> "N/A (Erro ao carregar)",
     DividendYield |-> NAErro,
     PrecoAtual |-> NAErro,
     CrescDy3a |-> NAErro,
     CrescDy5a |-> NAErro]

----------------------------------------------------------------------------
(* Report sections (lines 237-415) *)

(* lines 316-327: 'Peso Atual (%)' is the 'Peso' string parsed back *)
Rebalanceamento(df_carteira) ==
    LET num_acoes == Len(df_carteira)
        peso_sugerido == RMul(Rat(1, num_acoes), RInt(100))
    IN  [i \in 1..num_acoes |->
            [Ticker |-> df_carteira[i].Ticker,
             PesoAtual |-> RInt(df_carteira[i].Peso),
             PesoSugerido |-> peso_sugerido,
             Diferenca |-> RSub(peso_sugerido, RInt(df_carteira[i].Peso))]]

(* max(dividend_yields_dict, key=dividend_yields_dict.get): the first key  *)
(* in insertion order that holds the largest value                         *)
TickerMaiorDy(dys) ==
    LET i == CHOOSE j \in 1..Len(dys) :
                 /\ \A k \in 1..Len(dys) : RLe(dys[k][2], dys[j][2])
                 /\ \A k \in 1..(j - 1) : RLt(dys[k][2], dys[j][2])
    IN  dys[i][1]

SemRelatorio == [feito |-> FALSE]

Relatorio(df_carteira, dys, texto_ia) ==
    [feito |-> TRUE,
     grafico_dy |-> dys,
     df_rebalanceamento |-> Rebalanceamento(df_carteira),
     ticker_maior_dy |-> IF dys # <<>> THEN TickerMaiorDy(dys) ELSE "",
     download_ia |-> texto_ia]

----------------------------------------------------------------------------
(* gerar_prompt_ia (lines 418-471) *)

(* df_temp['Peso'].str.replace('%', '').astype(float) / 100 *)
PesoDecimal(linha) == Rat(linha.Peso, 100)

RECURSIVE DyPonderado(_, _, _, _)
DyPonderado(df, dys, dy_ponderado, total_peso) ==
    IF df = <<>>
    THEN IF RLt(RZero, total_peso) THEN RDiv(dy_ponderado, total_peso) ELSE RZero
    ELSE LET ticker == Head(df).Ticker
             peso == PesoDecimal(Head(df))
         IN  IF ticker \in DictKeys(dys)
             THEN DyPonderado(Tail(df), dys,
                              RAdd(dy_ponderado, RMul(DictGet(dys, ticker), peso)),
                              RAdd(total_peso, peso))
             ELSE DyPonderado(Tail(df), dys, dy_ponderado, total_peso)

SemPrompt == [feito |-> FALSE]

gerar_prompt_ia(df_carteira, dys) ==
    [feito |-> TRUE,
     carteira |-> df_carteira,
     dy_individual |-> [i \in 1..Len(dys) |-> <<dys[i][1], Fmt2(dys[i][2])>>],
     dy_ponderado_final |-> DyPonderado(df_carteira, dys, RZero, RZero)]

(* response.text of model.generate_content(prompt): the service answers   *)
(* each request with a text of its own                                     *)
TextoIa(p, n) == [t |-> "texto", de |-> p.dy_ponderado_final, pedido |-> n]
NoneTexto == [t |-> "None"]

----------------------------------------------------------------------------
(* Performance vs benchmark (lines 495-532) *)

SemDesempenho == [estado |-> "nao_calculado"]

(* lines 501-502 *)
DadosCombinados(precos, hist_ibov) ==
    DfDropna(DfConcat(precos, TICKER_IBOV, hist_ibov))

(* (dados_combinados / dados_combinados.iloc[0]) * 100, one column *)
Normalizada(serie, primeira) ==
    [d \in DOMAIN serie |-> RMul(Rat(serie[d], serie[primeira]), RInt(100))]

RECURSIVE RetornoCarteira(_, _, _)
RetornoCarteira(cart, norm, acc) ==
    IF cart = <<>> THEN acc
    ELSE LET ticker == Head(cart)[1]
             peso == Head(cart)[2].peso
         IN  IF ticker \in DictKeys(norm)
             THEN RetornoCarteira(Tail(cart), norm,
                     [d \in DOMAIN acc |->
                         RAdd(acc[d], RMul(DictGet(norm, ticker)[d], peso))])
             ELSE RetornoCarteira(Tail(cart), norm, acc)

(* lines 505-523, for a non-empty dados_combinados *)
CalcularDesempenho(cart, comb) ==
    LET primeira == Min(comb.index)
        norm == [i \in 1..Len(comb.cols) |->
                    <<comb.cols[i][1], Normalizada(comb.cols[i][2], primeira)>>]
    IN  [estado |-> "ok",
         index |-> comb.index,
         retorno_carteira |-> RetornoCarteira(cart, norm, [d \in comb.index |-> RZero]),
         ibov |-> DictGet(norm, TICKER_IBOV),
         grafico |-> TRUE]

----------------------------------------------------------------------------
(* Dividend cash flow (lines 537-546) *)

(* dividends * CARTEIRA_ACOES[ticker]['peso'] *)
Ponderar(dividends, peso) ==
    [d \in DOMAIN dividends |-> RMul(RInt(dividends[d]), peso)]

(* a.update(b)-like merge: the later ticker's amount replaces the sum *)
SeriesAddSobrescreve(a, b) ==
    [d \in (DOMAIN a) \cup (DOMAIN b) |-> IF d \in DOMAIN b THEN b[d] ELSE a[d]]

(* a.add(b, fill_value=0) *)
SeriesAdd(a, b) ==
    [d \in (DOMAIN a) \cup (DOMAIN b) |->
        RAdd(IF d \in DOMAIN a THEN a[d] ELSE RZero,
             IF d \in DOMAIN b THEN b[d] ELSE RZero)]

----------------------------------------------------------------------------
(* The run *)

(* the halt taken only when no file was uploaded, whatever the loader left *)
CarteiraVaziaSoSemArquivo(cart) == uploaded_file.tipo = "nenhum"

(* line 83: not CARTEIRA_ACOES *)
CarteiraVazia(cart) == cart = <<>>

InitExec ==
    /\ pc = "upload"
    /\ CARTEIRA_ACOES = <<>>
    /\ total_pesos = RZero
    /\ mensagens = <<>>
    /\ excecao = ""
    /\ cache = SerieVazia
    /\ chamadas = <<>>
    /\ i_loop = 1
    /\ dados_carteira = <<>>
    /\ precos_fechamento = DfVazio
    /\ dividend_yields_dict = <<>>
    /\ relatorio = SemRelatorio
    /\ prompt = SemPrompt
    /\ ia_report_text = NoneTexto
    /\ desempenho = SemDesempenho
    /\ dividendos_combinados = SerieVazia
    /\ execucao = 1
    /\ geracoes = <<>>

(* lines 42-85: the upload loader and the halt on an empty portfolio *)
Carregar ==
    /\ pc = "upload"
    /\ LET r == CarregarUpload(uploaded_file)
       IN  /\ CARTEIRA_ACOES' = r.cart
           /\ total_pesos' = r.total
           /\ mensagens' = IF CarteiraVazia(r.cart)
                           THEN Append(r.msgs, Msg("info", "aguardando_upload", ""))
                           ELSE r.msgs
           /\ pc' = IF CarteiraVazia(r.cart) THEN "parado" ELSE "loop"
    /\ UNCHANGED <<mundo, geracoes, excecao, cache, chamadas, i_loop, dados_carteira,
                   precos_fechamento, dividend_yields_dict, relatorio, prompt,
                   ia_report_text, desempenho, dividendos_combinados>>

(* lines 146-235: one iteration of the per-ticker loop *)
CarregarTicker ==
    /\ pc = "loop"
    /\ LET ticker == CARTEIRA_ACOES[i_loop][1]
           atributos == CARTEIRA_ACOES[i_loop][2]
           ultimo == i_loop = Len(CARTEIRA_ACOES)
           d == Dados(ticker)
       IN  /\ chamadas' = ChamadasApos(ticker)
           /\ cache' = CacheApos(ticker, "carga")
           /\ IF Falha(ticker, "carga")
              THEN /\ mensagens' = Append(mensagens, Msg("warning", "nao_carregou", ticker))
                   /\ dados_carteira' = Append(dados_carteira, LinhaErro(ticker, atributos))
                   /\ UNCHANGED <<precos_fechamento, dividend_yields_dict>>
              ELSE IF ErroProcessamento(d)
              THEN /\ precos_fechamento' =
                        IF DOMAIN d.hist # {}
                        THEN DfSetColumn(precos_fechamento, ticker, d.hist)
                        ELSE precos_fechamento
                   /\ mensagens' = Append(mensagens, Msg("warning", "nao_carregou", ticker))
                   /\ dados_carteira' = Append(dados_carteira, LinhaErro(ticker, atributos))
                   /\ UNCHANGED dividend_yields_dict
              ELSE /\ precos_fechamento' =
                        IF DOMAIN d.hist # {}
                        THEN DfSetColumn(precos_fechamento, ticker, d.hist)
                        ELSE precos_fechamento
                   /\ dividend_yields_dict' =
                        DictSet(dividend_yields_dict, ticker,
                                CalcularDy(d.info.currentPrice, Dividends12m(d.dividends)))
                   /\ dados_carteira' = Append(dados_carteira, LinhaOk(ticker, atributos, d))
                   /\ UNCHANGED mensagens
           /\ i_loop' = IF ultimo THEN 1 ELSE i_loop + 1
           /\ pc' = IF ultimo THEN "relatorio" ELSE "loop"
    /\ UNCHANGED <<mundo, geracoes, CARTEIRA_ACOES, total_pesos, excecao, relatorio, prompt,
                   ia_report_text, desempenho, dividendos_combinados>>

(* lines 237-415: table, charts, rebalancing, max yield, export *)
SecoesRelatorio ==
    /\ pc = "relatorio"
    /\ relatorio' = Relatorio(dados_carteira, dividend_yields_dict, ia_report_text)
    /\ pc' = "ia"
    /\ UNCHANGED <<mundo, geracoes, CARTEIRA_ACOES, total_pesos, mensagens, excecao, cache,
                   chamadas, i_loop, dados_carteira, precos_fechamento,
                   dividend_yields_dict, prompt, ia_report_text, desempenho,
                   dividendos_combinados>>

(* lines 475-489: the narrative, when the button is pressed *)
AnaliseIA ==
    /\ pc = "ia"
    /\ IF botao_ia
       THEN LET p == gerar_prompt_ia(dados_carteira, dividend_yields_dict)
            IN  /\ prompt' = p
                /\ IF Sitio("ia", "ia") \in falhas
                   THEN /\ mensagens' = mensagens \o <<Msg("error", "erro_ia", ""),
                                                       Msg("warning", "verifique_chave", "")>>
                        /\ UNCHANGED <<ia_report_text, geracoes>>
                   ELSE /\ ia_report_text' = TextoIa(p, execucao)
                        /\ geracoes' = Append(geracoes, TextoIa(p, execucao))
                        /\ UNCHANGED mensagens
       ELSE UNCHANGED <<prompt, mensagens, ia_report_text, geracoes>>
    /\ pc' = "desempenho"
    /\ UNCHANGED <<mundo, CARTEIRA_ACOES, total_pesos, excecao, cache, chamadas,
                   i_loop, dados_carteira, precos_fechamento, dividend_yields_dict,
                   relatorio, desempenho, dividendos_combinados>>

(* lines 495-532: performance vs benchmark; the benchmark fetch and        *)
(* dados_combinados.iloc[0] are outside any try                            *)
Desempenho ==
    /\ pc = "desempenho"
    /\ IF DfEmpty(precos_fechamento)
       THEN /\ mensagens' = Append(mensagens, Msg("warning", "sem_dados_desempenho", ""))
            /\ desempenho' = [estado |-> "sem_dados"]
            /\ pc' = "fluxo"
            /\ UNCHANGED <<excecao, cache, chamadas>>
       ELSE /\ chamadas' = ChamadasApos(TICKER_IBOV)
            /\ cache' = CacheApos(TICKER_IBOV, "desempenho")
            /\ UNCHANGED mensagens
            /\ IF Falha(TICKER_IBOV, "desempenho")
               THEN /\ pc' = "excecao"
                    /\ excecao' = "Exception"
                    /\ UNCHANGED desempenho
               ELSE LET comb == DadosCombinados(precos_fechamento, Dados(TICKER_IBOV).hist)
                    IN  IF comb.index = {}
                        THEN /\ pc' = "excecao"
                             /\ excecao' = "IndexError"
                             /\ UNCHANGED desempenho
                        ELSE /\ pc' = "fluxo"
                             /\ desempenho' = CalcularDesempenho(CARTEIRA_ACOES, comb)
                             /\ UNCHANGED excecao
    /\ UNCHANGED <<mundo, geracoes, CARTEIRA_ACOES, total_pesos, i_loop, dados_carteira,
                   precos_fechamento, dividend_yields_dict, relatorio, prompt,
                   ia_report_text, dividendos_combinados>>

(* lines 539-555: one iteration of the cash-flow loop; the table is shown  *)
(* after the last one                                                      *)
FluxoTicker ==
    /\ pc = "fluxo"
    /\ LET ticker == CARTEIRA_ACOES[i_loop][1]
           ultimo == i_loop = Len(CARTEIRA_ACOES)
           dividends == Dados(ticker).dividends
           combinados ==
               IF Falha(ticker, "fluxo") \/ DOMAIN dividends = {}
               THEN dividendos_combinados
               ELSE SeriesAdd(dividendos_combinados,
                              Ponderar(dividends, CARTEIRA_ACOES[i_loop][2].peso))
           avisos == IF Falha(ticker, "fluxo")
                     THEN <<Msg("warning", "erro_dividendos", ticker)>>
                     ELSE <<>>
           final == IF ultimo /\ DOMAIN combinados = {}
                    THEN <<Msg("write", "sem_dividendos", "")>>
                    ELSE <<>>
       IN  /\ chamadas' = ChamadasApos(ticker)
           /\ cache' = CacheApos(ticker, "fluxo")
           /\ dividendos_combinados' = combinados
           /\ mensagens' = mensagens \o avisos \o final
           /\ i_loop' = IF ultimo THEN 1 ELSE i_loop + 1
           /\ pc' = IF ultimo THEN "fim" ELSE "fluxo"
    /\ UNCHANGED <<mundo, geracoes, CARTEIRA_ACOES, total_pesos, excecao, dados_carteira,
                   precos_fechamento, dividend_yields_dict, relatorio, prompt,
                   ia_report_text, desempenho>>

(* a rerun of the script in the same session (a widget interaction): the   *)
(* script starts from its first line; st.session_state (lines 25-26) and   *)
(* the st.cache_data entries that have not expired (line 89) are kept      *)
Reexecutar ==
    /\ pc \in {"parado", "excecao", "fim"}
    /\ sessao # <<>>
    /\ falhas' = Head(sessao).falhas
    /\ botao_ia' = Head(sessao).botao_ia
    /\ sessao' = Tail(sessao)
    /\ execucao' = execucao + 1
    /\ cache' = IF Head(sessao).ttl_vencido THEN SerieVazia ELSE cache
    /\ chamadas' = IF Head(sessao).ttl_vencido THEN <<>> ELSE chamadas
    /\ pc' = "upload"
    /\ CARTEIRA_ACOES' = <<>>
    /\ total_pesos' = RZero
    /\ mensagens' = <<>>
    /\ excecao' = ""
    /\ i_loop' = 1
    /\ dados_carteira' = <<>>
    /\ precos_fechamento' = DfVazio
    /\ dividend_yields_dict' = <<>>
    /\ relatorio' = SemRelatorio
    /\ prompt' = SemPrompt
    /\ desempenho' = SemDesempenho
    /\ dividendos_combinados' = SerieVazia
    /\ UNCHANGED <<uploaded_file, yf, ia_report_text, geracoes>>

Next ==
    \/ Carregar
    \/ CarregarTicker
    \/ SecoesRelatorio
    \/ AnaliseIA
    \/ Desempenho
    \/ FluxoTicker
    \/ Reexecutar

----------------------------------------------------------------------------
(* Inputs *)

TodosTickers == Tickers \cup {TICKER_IBOV}

DatasHist == {Hoje - k : k \in 1..MaxDatas}

SemArquivo == [tipo |-> "nenhum", colunas |-> FALSE, linhas |-> <<>>]
Ilegivel == [tipo |-> "ilegivel", colunas |-> FALSE, linhas |-> <<>>]
Tabela(linhas) == [tipo |-> "tabela", colunas |-> TRUE, linhas |-> linhas]
SemColunas == [tipo |-> "tabela", colunas |-> FALSE, linhas |-> <<>>]

Num(v) == [tipo |-> "num", valor |-> v]
Linha(t, v) == [Ticker |-> t, Peso |-> Num(v)]

Celulas ==
    {Num(v) : v \in {-50, 0, 50, 51}}
        \cup {[tipo |-> k, valor |-> 0] : k \in {"texto", "nan", "data"}}

Uploads ==
    {SemArquivo, Ilegivel, SemColunas}
        \cup {Tabela(l) : l \in SeqsUpTo([Ticker : TickersBrutos, Peso : Celulas], MaxLinhas)}

DadosDe(preco, hist, dividends) ==
    [info |-> [currentPrice |-> preco, sector |-> "Financeiro"],
     hist |-> hist, dividends |-> dividends]

HistPadrao == [d \in {Hoje - 2, Hoje - 1} |-> 10]
DivPadrao == [d \in {Hoje - 100} |-> 1]
DadosPadrao == DadosDe(PyNum(10), HistPadrao, DivPadrao)
YfPadrao == [t \in TodosTickers |-> DadosPadrao]

Ambiente(f, b) == [falhas |-> f, botao_ia |-> b]

(* what a rerun meets: whether the button was pressed, the calls that     *)
(* fail, and whether the cached fetches have expired since the last run    *)
Reexecucao(b, f, v) == [botao_ia |-> b, falhas |-> f, ttl_vencido |-> v]

SemReexecucao == <<>>

(* the inputs of the first run and the reruns that follow it *)
InitMundo(arq, y, amb, s) ==
    /\ uploaded_file = arq
    /\ yf = y
    /\ falhas = amb.falhas
    /\ botao_ia = amb.botao_ia
    /\ sessao = s

(* provider data that differ from the default for AAA, BBB and the index *)
YfDe(a, b, ibov) ==
    [t \in TodosTickers |->
        CASE t = "AAA" -> a
          [] t = "BBB" -> b
          [] t = TICKER_IBOV -> ibov
          [] OTHER -> DadosPadrao]

(* Spec: every upload of up to MaxLinhas rows, in a few environments that  *)
(* between them take every branch of the run, and three-position uploads   *)
CenariosBasicos ==
    { [yf |-> YfPadrao, amb |-> Ambiente({}, TRUE)],
      [yf |-> [t \in TodosTickers |-> DadosDe(PyNone, SerieVazia, SerieVazia)],
       amb |-> Ambiente({Sitio("ia", "ia")}, TRUE)],
      [yf |-> [YfPadrao EXCEPT ![TICKER_IBOV].hist = [d \in {Hoje - 3} |-> 10]],
       amb |-> Ambiente({Sitio("AAA", "carga"), Sitio("BBB", "fluxo")}, FALSE)],
      [yf |-> YfPadrao, amb |-> Ambiente({Sitio(TICKER_IBOV, "desempenho")}, FALSE)],
      [yf |-> [YfPadrao EXCEPT !["AAA"].info.currentPrice = PyTexto],
       amb |-> Ambiente({}, TRUE)] }

(* sessions: a two-position upload or no file, and up to MaxReexecucoes    *)
(* reruns                                                                  *)
UploadsSessao == {Tabela(<<Linha("AAA", 50), Linha("BBB", 50)>>), SemArquivo}

CenariosSessao ==
    { Ambiente({}, TRUE), Ambiente({Sitio("ia", "ia")}, TRUE),
      Ambiente({Sitio("AAA", "carga")}, FALSE) }

Reexecucoes ==
    {Reexecucao(b, f, v) :
        b \in BOOLEAN,
        f \in {{}, {Sitio("ia", "ia")}, {Sitio("AAA", "carga")}},
        v \in BOOLEAN}

Sessoes == SeqsUpTo(Reexecucoes, MaxReexecucoes)

UploadsTres ==
    {Tabela(<<Linha("AAA", a), Linha("BBB", b), Linha("CCC", c)>>) :
        a \in {50, 51}, b \in {50, 51}, c \in {50, 51}}

Init ==
    /\ \/ \E u \in Uploads : \E c \in CenariosBasicos :
             InitMundo(u, c.yf, c.amb, SemReexecucao)
       \/ \E u \in UploadsTres :
             InitMundo(u, YfPadrao, Ambiente({}, TRUE), SemReexecucao)
       \/ \E u \in UploadsSessao : \E amb \in CenariosSessao : \E s \in Sessoes :
             InitMundo(u, YfPadrao, amb, s)
    /\ InitExec

Spec == Init /\ [][Next]_vars

(* two positions in both orders, with equal and unequal weights *)
UploadsDois ==
    {Tabela(<<Linha("AAA", a), Linha("BBB", b)>>) : a \in {50, 150}, b \in {50, 150}}
    \cup {Tabela(<<Linha("BBB", 50), Linha("AAA", 150)>>)}

UploadsAB == {Tabela(<<Linha("AAA", 50), Linha("BBB", w)>>) : w \in {50, 150}}

(* no file: the run that halts, alone or followed by a rerun *)
InitSemArquivo ==
    \E s \in {SemReexecucao} \cup {<<Reexecucao(TRUE, {}, v)>> : v \in BOOLEAN} :
        InitMundo(SemArquivo, YfPadrao, Ambiente({}, TRUE), s)

(* SpecRendimento: current prices and dividend histories of two positions *)
Precos == {PyNone, PyNum(0), PyNum(-5), PyNum(10), PyNum(20)}
DatasRendimento == {Hoje - 100, Hoje - 500}
DadosRendimento ==
    {DadosDe(p, HistPadrao, dv) :
        p \in Precos, dv \in Series(DatasRendimento, 1..MaxDividendo)}

AmbientesRendimento ==
    { Ambiente({}, TRUE), Ambiente({Sitio("AAA", "carga")}, TRUE),
      Ambiente({Sitio("ia", "ia")}, TRUE), Ambiente({}, FALSE) }

InitRendimento ==
    /\ \/ \E u \in UploadsAB : \E a \in DadosRendimento : \E b \in DadosRendimento :
             \E amb \in AmbientesRendimento :
                 InitMundo(u, YfDe(a, b, DadosPadrao), amb, SemReexecucao)
       \/ InitSemArquivo
    /\ InitExec

SpecRendimento == InitRendimento /\ [][Next]_vars

(* SpecDesempenho: price histories of two positions and of the index *)
DadosHist == {DadosDe(PyNum(10), h, DivPadrao) : h \in Series(DatasHist, {10, 20})}
DadosHistIbov == {DadosDe(PyNum(10), h, DivPadrao) : h \in Series(DatasHist, {10})}

AmbientesDesempenho ==
    { Ambiente({}, FALSE), Ambiente({Sitio(TICKER_IBOV, "desempenho")}, FALSE),
      Ambiente({Sitio("AAA", "carga")}, TRUE) }

InitDesempenho ==
    /\ \/ \E u \in UploadsAB : \E a \in DadosHist : \E b \in DadosHist :
             \E i \in DadosHistIbov : \E amb \in AmbientesDesempenho :
                 InitMundo(u, YfDe(a, b, i), amb, SemReexecucao)
       \/ InitSemArquivo
    /\ InitExec

SpecDesempenho == InitDesempenho /\ [][Next]_vars

(* SpecDividendos: dividend histories; one position with payments spread  *)
(* over six years, and two or three positions paying on shared dates       *)
DatasCagr == {Hoje - k : k \in {100, 300, 1000, 3 * 365, 3 * 365 + 1, 1900}}
DatasFluxo == {Hoje - 100, Hoje - 300}

AmbientesFluxo ==
    { Ambiente({}, FALSE),
      Ambiente({Sitio("AAA", "carga"), Sitio("AAA", "fluxo")}, FALSE),
      Ambiente({Sitio("BBB", "carga")}, TRUE),
      Ambiente({Sitio("AAA", "fluxo")}, FALSE) }

InitDividendos ==
    /\ \/ \E dv \in Series(DatasCagr, 0..MaxDividendo) :
             InitMundo(Tabela(<<Linha("AAA", 100)>>),
                       YfDe(DadosDe(PyNum(10), HistPadrao, dv), DadosPadrao, DadosPadrao),
                       Ambiente({}, FALSE), SemReexecucao)
       \/ \E u \in UploadsDois \cup UploadsTres :
             \E a \in Series(DatasFluxo, 1..MaxDividendo) :
                 \E b \in Series(DatasFluxo, 1..MaxDividendo) :
                     \E amb \in AmbientesFluxo :
                         InitMundo(u, YfDe(DadosDe(PyNum(10), HistPadrao, a),
                                           DadosDe(PyNum(10), HistPadrao, b),
                                           DadosPadrao), amb, SemReexecucao)
       \/ InitSemArquivo
    /\ InitExec

SpecDividendos == InitDividendos /\ [][Next]_vars

----------------------------------------------------------------------------
(* Claims about the upload loader and the rebalancing table, under Spec *)

Carregada == pc # "upload"

SomaPesos(cart) == SumSeq([i \in 1..Len(cart) |-> cart[i][2].peso])

(* C1: after the loader has processed the upload, the portfolio is empty   *)
(* or its weights sum to 1.0 within 0.01.                                  *)
C1_PesosSomamUm ==
    Carregada =>
        \/ CARTEIRA_ACOES = <<>>
        \/ RLe(RAbs(RSub(SomaPesos(CARTEIRA_ACOES), ROne)), Rat(1, 100))

CelulaValida(cel) == cel.tipo = "num" /\ cel.valor > 0

TabelaComColunas == uploaded_file.tipo = "tabela" /\ uploaded_file.colunas

AvisoDe(ticker) ==
    \E k \in 1..Len(mensagens) :
        /\ mensagens[k].nivel = "warning"
        /\ mensagens[k].ticker = ticker
        /\ mensagens[k].id \in {"peso_invalido", "peso_nao_positivo"}

(* C2: a row with an unparsable or non-positive weight is rejected alone,  *)
(* with a warning; every row with a positive weight is still loaded.       *)
C2_LinhasRejeitadasUmaAUma ==
    (Carregada /\ TabelaComColunas) =>
        \A i \in 1..Len(uploaded_file.linhas) :
            LET linha == uploaded_file.linhas[i]
            IN  IF CelulaValida(linha.Peso)
                THEN NormalizarTicker(linha.Ticker) \in DictKeys(CARTEIRA_ACOES)
                ELSE AvisoDe(NormalizarTicker(linha.Ticker))

FonteInvalida ==
    \/ uploaded_file.tipo \in {"nenhum", "ilegivel"}
    \/ ~uploaded_file.colunas
    \/ \A i \in 1..Len(uploaded_file.linhas) : ~CelulaValida(uploaded_file.linhas[i].Peso)

NadaCalculado ==
    /\ chamadas = <<>>
    /\ cache = SerieVazia
    /\ dados_carteira = <<>>
    /\ dividend_yields_dict = <<>>
    /\ precos_fechamento = DfVazio
    /\ relatorio = SemRelatorio
    /\ prompt = SemPrompt
    /\ desempenho = SemDesempenho
    /\ dividendos_combinados = SerieVazia

(* C3: with an absent or invalid portfolio source the portfolio is empty   *)
(* and the run halts before any fetch and before any metric is computed.   *)
C3_FonteInvalidaPara ==
    (Carregada /\ FonteInvalida) =>
        /\ CARTEIRA_ACOES = <<>>
        /\ pc = "parado"
        /\ NadaCalculado

(* an upload whose rows all carry weight zero has been processed *)
C3_Witness ==
    /\ pc = "parado"
    /\ TabelaComColunas
    /\ Len(uploaded_file.linhas) = 2
    /\ \A i \in 1..Len(uploaded_file.linhas) : uploaded_file.linhas[i].Peso = Num(0)

RECURSIVE SomaDiferencas(_)
SomaDiferencas(df) ==
    IF df = <<>> THEN RZero ELSE RAdd(Head(df).Diferenca, SomaDiferencas(Tail(df)))

(* C10: for N positions whose weights sum to 100%, every target weight is  *)
(* 100/N percent and the differences target - current sum to 0.            *)
C10_RebalanceamentoSomaZero ==
    (relatorio.feito /\ SomaPesos(CARTEIRA_ACOES) = ROne) =>
        LET df == relatorio.df_rebalanceamento
            N == Len(CARTEIRA_ACOES)
        IN  /\ Len(df) = N
            /\ \A i \in 1..N : df[i].PesoSugerido = Rat(100, N)
            /\ SomaDiferencas(df) = RZero

----------------------------------------------------------------------------
(* Claims about the trailing yield, under SpecRendimento *)

LinhaCarregada(linha) == linha.DividendYield # NAErro

(* the provider's current price is missing or <= 0 *)
PrecoAusente(ticker) ==
    LET p == yf[ticker].info.currentPrice
    IN  IF p.t = "None" THEN TRUE ELSE p.v <= 0

NuncaZero(dys, ticker) ==
    ticker \in DictKeys(dys) => DictGet(dys, ticker) # RZero

(* C4: a ticker whose price is missing or <= 0 has its yield reported as   *)
(* unavailable, never as 0: in its table row, in the yield map behind the  *)
(* bar chart, in the max-yield selection and in the narrative prompt.      *)
C4_SemPrecoNuncaZero ==
    \A i \in 1..Len(dados_carteira) :
        LET linha == dados_carteira[i]
            ticker == linha.Ticker
        IN  (LinhaCarregada(linha) /\ PrecoAusente(ticker)) =>
                /\ linha.DividendYield = NA
                /\ NuncaZero(dividend_yields_dict, ticker)
                /\ relatorio.feito =>
                       /\ NuncaZero(relatorio.grafico_dy, ticker)
                       /\ relatorio.ticker_maior_dy # ticker
                /\ prompt.feito =>
                       \A k \in 1..Len(prompt.dy_individual) :
                           prompt.dy_individual[k][1] = ticker =>
                               prompt.dy_individual[k][2] # Fmt2(RZero)

(* the yield of a position with a price: dividends of the last 365 days    *)
(* over the price, in percent                                              *)
RendimentoDe(ticker) ==
    RMul(Rat(Dividends12m(yf[ticker].dividends), yf[ticker].info.currentPrice.v),
         RInt(100))

(* C5: the weighted-average yield of the prompt is the sum of yield x      *)
(* weight over the positions that have a yield, divided by the sum of the  *)
(* weights of exactly those positions.                                     *)
C5_MediaPonderada ==
    prompt.feito =>
        LET com == {i \in 1..Len(dados_carteira) :
                       /\ LinhaCarregada(dados_carteira[i])
                       /\ ~PrecoAusente(dados_carteira[i].Ticker)}
            pesos == [i \in com |-> PesoDecimal(dados_carteira[i])]
            parcelas == [i \in com |->
                            RMul(RendimentoDe(dados_carteira[i].Ticker), pesos[i])]
        IN  RLt(RZero, SumSet(com, pesos)) =>
                prompt.dy_ponderado_final = RDiv(SumSet(com, parcelas), SumSet(com, pesos))

----------------------------------------------------------------------------
(* Claims about the performance section, under SpecDesempenho *)

PassouDesempenho == pc \in {"fluxo", "fim", "excecao"}

(* the positions that brought a price series: loaded, with a history *)
ColunasPreco ==
    {t \in DictKeys(CARTEIRA_ACOES) :
        Sitio(t, "carga") \notin falhas /\ DOMAIN yf[t].hist # {}}

DatasComuns ==
    {d \in DOMAIN yf[TICKER_IBOV].hist : \A t \in ColunasPreco : d \in DOMAIN yf[t].hist}

BenchmarkFalhou == excecao = "Exception"

AvisoDesempenho ==
    \E k \in 1..Len(mensagens) : mensagens[k].id = "sem_dados_desempenho"

(* C6: when the positions' price series and the benchmark share no date,   *)
(* the program reports that performance cannot be computed and goes on; it *)
(* raises no error and draws no chart.                                     *)
C6_IntersecaoVaziaRelatada ==
    (PassouDesempenho /\ ~BenchmarkFalhou /\ DatasComuns = {}) =>
        /\ pc # "excecao"
        /\ AvisoDesempenho
        /\ desempenho.estado # "ok"

PrecoNormalizado(t, d) ==
    RMul(Rat(yf[t].hist[d], yf[t].hist[Min(DatasComuns)]), RInt(100))

(* one entry per common date, base 100, weighted sum of the positions *)
DesempenhoConforme ==
    /\ desempenho.index = DatasComuns
    /\ DOMAIN desempenho.retorno_carteira = DatasComuns
    /\ \A d \in DatasComuns :
           /\ desempenho.ibov[d] = PrecoNormalizado(TICKER_IBOV, d)
           /\ desempenho.retorno_carteira[d] =
                  SumSet(ColunasPreco,
                         [t \in ColunasPreco |->
                             RMul(DictGet(CARTEIRA_ACOES, t).peso, PrecoNormalizado(t, d))])
    /\ desempenho.ibov[Min(DatasComuns)] = RInt(100)

SemSobreposicao ==
    \E t \in ColunasPreco :
        \A u \in ColunasPreco \ {t} : DOMAIN yf[t].hist \cap DOMAIN yf[u].hist = {}

(* C7: the performance series has one entry per date common to every      *)
(* position's price series and the benchmark, each normalized to 100 at    *)
(* the first common date and summed by weight; a ticker sharing no date    *)
(* with the others does not make the computation fail.                     *)
C7_SerieDesempenho ==
    (PassouDesempenho /\ ~BenchmarkFalhou /\ ColunasPreco # {}) =>
        /\ desempenho.estado = "ok" => DesempenhoConforme
        /\ (Cardinality(ColunasPreco) > 1 /\ SemSobreposicao) => pc # "excecao"

(* the part of C7 the code keeps: whenever a series is produced, it is the *)
(* claimed one                                                             *)
DesempenhoCalculadoConforme ==
    desempenho.estado = "ok" => DesempenhoConforme

----------------------------------------------------------------------------
(* Claims about the dividend series, under SpecDividendos *)

Janela(s, years) == {d \in DOMAIN s : Hoje - d <= years * 365}
TotalDoAno(s, J, ano) == SomaInt({d \in J : AnoDe(d) = ano}, s)

SemCrescimento(s, years) ==
    LET J == Janela(s, years)
    IN  \/ Cardinality(DOMAIN s) < 2
        \/ J = {}
        \/ \A d \in J : \A e \in J : AnoDe(d) = AnoDe(e)
        \/ TotalDoAno(s, J, AnoDe(Min(J))) <= 0
        \/ TotalDoAno(s, J, AnoDe(Max(J))) <= 0

CrescimentoConforme(s, years, valor) ==
    LET J == Janela(s, years)
    IN  IF SemCrescimento(s, years)
        THEN valor = NA
        ELSE valor = Cagr(TotalDoAno(s, J, AnoDe(Min(J))),
                          TotalDoAno(s, J, AnoDe(Max(J))),
                          AnoDe(Max(J)) - AnoDe(Min(J)))

(* C8: calcular_crescimento_dividendos returns "N/A" exactly when the      *)
(* series has fewer than 2 entries, or none within years x 365 days, or    *)
(* the window holds a single calendar year, or the total of its earliest   *)
(* or latest year is <= 0; otherwise the growth of those two totals.       *)
C8_CrescimentoNA ==
    \A i \in 1..Len(dados_carteira) :
        LET linha == dados_carteira[i]
            s == yf[linha.Ticker].dividends
        IN  LinhaCarregada(linha) =>
                /\ CrescimentoConforme(s, 3, linha.CrescDy3a)
                /\ CrescimentoConforme(s, 5, linha.CrescDy5a)

(* a series with no growth over 3 years (one year in the window) and a     *)
(* growth over 5 years                                                     *)
C8_Witness ==
    \E i \in 1..Len(dados_carteira) :
        /\ dados_carteira[i].CrescDy3a = NA
        /\ dados_carteira[i].CrescDy5a # NA
        /\ dados_carteira[i].CrescDy5a # NAErro
        /\ Cardinality(Janela(yf[dados_carteira[i].Ticker].dividends, 3)) = 1

(* the positions whose dividends were fetched, by the end of the run *)
Buscados == DictKeys(CARTEIRA_ACOES) \cap DOMAIN cache

PagoEm(t, d) ==
    IF d \in DOMAIN yf[t].dividends
    THEN RMul(RInt(yf[t].dividends[d]), DictGet(CARTEIRA_ACOES, t).peso)
    ELSE RZero

(* C9: the cash-flow series holds, for every date, the sum over the        *)
(* fetched positions of weight x dividend paid on that date (0 when a      *)
(* position paid nothing), whatever the order of the tickers.              *)
C9_FluxoAditivo ==
    pc = "fim" =>
        /\ DOMAIN dividendos_combinados = UNION {DOMAIN yf[t].dividends : t \in Buscados}
        /\ \A d \in DOMAIN dividendos_combinados :
               dividendos_combinados[d] = SumSet(Buscados, [t \in Buscados |-> PagoEm(t, d)])

(* two positions with different weights paid on one date, only one of them *)
(* on another, and a third position was never fetched or paid nothing      *)
C9_Witness ==
    /\ pc = "fim"
    /\ \E t \in Buscados : \E u \in Buscados \ {t} :
           /\ DictGet(CARTEIRA_ACOES, t).peso # DictGet(CARTEIRA_ACOES, u).peso
           /\ CARTEIRA_ACOES[1][1] = u
           /\ \E d \in DOMAIN yf[t].dividends \cap DOMAIN yf[u].dividends :
                  \E e \in DOMAIN yf[t].dividends : e \notin DOMAIN yf[u].dividends

----------------------------------------------------------------------------
(* Claims about failures of the external calls *)

(* the per-ticker loop has ended in this run *)
PassouCarga == pc \in {"relatorio", "ia", "desempenho", "fluxo", "fim", "excecao"}

(* until the cash-flow loop fetches again, a position is missing from the  *)
(* cache exactly when its fetch in the per-ticker loop failed              *)
AntesDoFluxo == pc \in {"loop", "relatorio", "ia", "desempenho"}

AvisosCarga(ticker) ==
    Cardinality({k \in 1..Len(mensagens) :
                    mensagens[k] = Msg("warning", "nao_carregou", ticker)})

(* the row the loop builds from the provider's data when nothing fails *)
LinhaSemFalha(i) ==
    LinhaOk(CARTEIRA_ACOES[i][1], CARTEIRA_ACOES[i][2],
            buscar_dados_acao(CARTEIRA_ACOES[i][1]))

(* row i names its ticker and weight and carries the error markers in     *)
(* every other column                                                      *)
LinhaDeErro(i) ==
    /\ dados_carteira[i].Ticker = CARTEIRA_ACOES[i][1]
    /\ dados_carteira[i].Peso = FmtPeso(CARTEIRA_ACOES[i][2].peso)
    /\ dados_carteira[i].Setor = "N/A (Erro ao carregar)"
    /\ dados_carteira[i].DividendYield = NAErro
    /\ dados_carteira[i].PrecoAtual = NAErro
    /\ dados_carteira[i].CrescDy3a = NAErro
    /\ dados_carteira[i].CrescDy5a = NAErro

FalhouNaCarga(ticker) ==
    \/ ticker \notin DOMAIN cache
    \/ ErroProcessamento(buscar_dados_acao(ticker))

(* C11: a failure while fetching or processing a ticker gives that ticker  *)
(* exactly one row, carrying the error markers, and one warning; the loop  *)
(* goes on, so that after it the table has one row per portfolio ticker,   *)
(* in order, and every other row is the one built from that ticker's own   *)
(* data, as when nothing fails.                                            *)
C11_FalhaIsolada ==
    /\ pc = "loop" => Len(dados_carteira) = i_loop - 1
    /\ PassouCarga => Len(dados_carteira) = Len(CARTEIRA_ACOES)
    /\ \A i \in 1..Len(dados_carteira) :
           LET ticker == CARTEIRA_ACOES[i][1]
           IN  /\ dados_carteira[i].Ticker = ticker
               /\ \/ /\ LinhaDeErro(i)
                     /\ AvisosCarga(ticker) = 1
                  \/ /\ dados_carteira[i] = LinhaSemFalha(i)
                     /\ AvisosCarga(ticker) = 0
                     /\ ~ErroProcessamento(buscar_dados_acao(ticker))
               /\ AntesDoFluxo =>
                     (LinhaDeErro(i) <=> FalhouNaCarga(ticker))
               /\ (AntesDoFluxo /\ ticker \notin DOMAIN cache) =>
                     Sitio(ticker, "carga") \in falhas
               /\ (execucao = 1 /\ Sitio(ticker, "carga") \in falhas) =>
                     LinhaDeErro(i)

(* the fetch of the first position failed and the second position, loaded  *)
(* after it, has the row of its own data                                   *)
C11_Witness ==
    /\ pc = "relatorio"
    /\ Len(dados_carteira) = 2
    /\ CARTEIRA_ACOES[1][1] \notin DOMAIN cache
    /\ LinhaDeErro(1)
    /\ dados_carteira[2] = LinhaSemFalha(2)
    /\ ~LinhaDeErro(2)

(* the narrative service was called in this run and failed *)
FalhouIa == botao_ia /\ Sitio("ia", "ia") \in falhas

PassouIa == pc \in {"desempenho", "fluxo", "fim", "excecao"}

TemMensagem(nivel, id, ticker) ==
    \E k \in 1..Len(mensagens) : mensagens[k] = Msg(nivel, id, ticker)

(* every failed position fetch and narrative call of the run has its       *)
(* message on the page                                                     *)
FalhasRelatadas ==
    /\ (PassouCarga /\ AntesDoFluxo) =>
           \A i \in 1..Len(CARTEIRA_ACOES) :
               CARTEIRA_ACOES[i][1] \notin DOMAIN cache =>
                   TemMensagem("warning", "nao_carregou", CARTEIRA_ACOES[i][1])
    /\ (PassouIa /\ FalhouIa) => TemMensagem("error", "erro_ia", "")

(* the run was ended by the exception of a failed external call *)
AbortadaPorFalhaExterna == pc = "excecao" /\ excecao = "Exception"

(* C12: with a non-empty portfolio loaded, a failed position fetch,        *)
(* benchmark fetch or narrative call never aborts the run: each failure    *)
(* has its message and the sections after it are still produced.           *)
C12_FalhaExternaNaoAborta ==
    /\ FalhasRelatadas
    /\ ~AbortadaPorFalhaExterna

----------------------------------------------------------------------------
(* Claims about the session *)

(* lines 403-410: the page of this run shows the narrative download *)
DownloadOferecido == relatorio.feito /\ relatorio.download_ia # NoneTexto

UltimaGeracao == geracoes[Len(geracoes)]

(* st.session_state.ia_report_text is None until a generation succeeds and *)
(* then holds the text of the latest one: a failed generation changes      *)
(* nothing                                                                 *)
TextoGuardadoMaisRecente ==
    ia_report_text = IF geracoes = <<>> THEN NoneTexto ELSE UltimaGeracao

(* C13: in any run of a session, the narrative download is on the page     *)
(* only if a generation has succeeded in the session, and its content is   *)
(* the text returned by the latest successful generation; a failed         *)
(* generation leaves the stored text as it was.                            *)
C13_DownloadMaisRecente ==
    /\ TextoGuardadoMaisRecente
    /\ DownloadOferecido =>
           /\ geracoes # <<>>
           /\ relatorio.download_ia = UltimaGeracao

(* provider calls issued for the ticker since the cache last expired *)
Chamadas(ticker) ==
    Cardinality({k \in 1..Len(chamadas) : chamadas[k] = ticker})

(* a ticker whose fetch succeeded is not asked of the provider again while *)
(* its cache entry lives                                                   *)
SucessoReutilizado ==
    [][\A t \in DOMAIN cache :
          t \in DOMAIN cache' => Chamadas(t)' = Chamadas(t)]_vars

(* C14: within a run, and across the runs inside the memoization window,   *)
(* the provider is called at most once per ticker: a successful fetch is   *)
(* reused and a failed fetch is not attempted again.                       *)
C14_UmaChamadaPorTicker ==
    \A t \in TodosTickers : Chamadas(t) <= 1

(* the positions whose row in the metrics table carries the error markers *)
ComErro == {CARTEIRA_ACOES[i][1] : i \in {j \in 1..Len(dados_carteira) : LinhaDeErro(j)}}

(* a position with an error row has no entry in dividend_yields_dict *)
ErroSemRendimento == ComErro \cap DictKeys(dividend_yields_dict) = {}

(* a position with an error row has no column in precos_fechamento *)
ErroSemPrecos == ComErro \cap DictKeys(precos_fechamento.cols) = {}

(* the cash-flow series is made of the amounts of the other positions only *)
ErroSemFluxo ==
    pc = "fim" =>
        LET sem_erro == Buscados \ ComErro
        IN  /\ DOMAIN dividendos_combinados =
                   UNION {DOMAIN yf[t].dividends : t \in sem_erro}
            /\ \A d \in DOMAIN dividendos_combinados :
                   dividendos_combinados[d] =
                       SumSet(sem_erro, [t \in sem_erro |-> PagoEm(t, d)])

(* C15: a ticker whose row carries the error markers contributes to no     *)
(* other output of the run: no entry in the yield map, no column in the    *)
(* price frame of the performance series, no amounts in the cash flow.     *)
C15_ErroNaoContribui ==
    /\ ErroSemRendimento
    /\ ErroSemPrecos
    /\ ErroSemFluxo

====
